---- MODULE Spec2Model ----
(***************************************************************************)
(* A model of src/_pytest/config/argparsing.py: the Parser (registrar of   *)
(* command-line options, option groups and ini keys), Argument,            *)
(* OptionGroup, MyOptionParser.parse_args, OverrideIniAction and           *)
(* DropShorterLongHelpFormatter.                                           *)
(*                                                                         *)
(* A Python str is modelled as a sequence of one-character strings, so     *)
(* that slicing, replace() and join() are computed, not assumed.           *)
(***************************************************************************)
EXTENDS Integers, Sequences, FiniteSets, TLC

VARIABLES
    \* Parser._inidict, Parser._ini_aliases and the outcome of the last addini
    inidict, ini_aliases, iniCall, iniRaised,
    \* the arguments of the last Argument(*names, **attrs) and what it built
    argNames, argDest, arg,
    \* one OptionGroup: its options, whether its parser has a _processopt hook,
    \* the options the hook was called with, the last call and its outcome
    options, hasHook, processed, optCall, optRaised,
    \* the Parser: _groups, the options of _anonymous, the last operation with
    \* its arguments, and what the last operation returned or raised
    groups, anonymous, regCall, regResult,
    \* what parse_known_args returned to the last MyOptionParser.parse_args,
    \* the parser's extra_info, and what parse_args returned or raised
    paCall, paResult,
    \* one command line: the namespace being filled, the override_ini it
    \* started with, and the override flags activated so far, in order
    namespace, ovrEarlier, ovrLog,
    \* one argparse action shown in the help: its option strings, metavar,
    \* cached _formatted_action_invocation and the number of times it was
    \* rendered; and what the last rendering returned or raised
    fmtAction, fmtResult

iniVars == <<inidict, ini_aliases, iniCall, iniRaised>>
argVars == <<argNames, argDest, arg>>
optVars == <<options, hasHook, processed, optCall, optRaised>>
regVars == <<groups, anonymous, regCall, regResult>>
paVars == <<paCall, paResult>>
ovrVars == <<namespace, ovrEarlier, ovrLog>>
fmtVars == <<fmtAction, fmtResult>>
vars == <<iniVars, argVars, optVars, regVars, paVars, ovrVars, fmtVars>>

\* Python's None, kept apart from every str (a str holds one-character items)
None == <<"None">>

\* the module-level sentinel NOT_SET
NOT_SET == <<"<notset>">>

\* the set of items of a sequence
Items(seq) == {seq[i] : i \in 1..Len(seq)}

\* the least element of a non-empty set of integers
Least(S) == CHOOSE i \in S : \A j \in S : i <= j

\* ---------------------------------------------------------------- ini keys

\* the str values used as ini names and aliases
IniNames == {<<"t">>, <<"s">>, <<"u">>}

\* the alias sequences a call may pass (aliases: Sequence[str] = ())
IniAliasLists ==
    {<< >>} \cup {<<a>> : a \in IniNames} \cup {<<a, b>> : a, b \in IniNames}

\* the type arguments a call may pass (None stands for "not passed")
IniTypes == {None, <<"bool">>}

\* the default arguments a call may pass
IniDefaults == {NOT_SET}

\* the help arguments a call may pass
IniHelps == {<<"h">>}

\* every type argument addini accepts
IniTypesAll ==
    { None, <<"string">>, <<"paths">>, <<"pathlist">>, <<"args">>,
      <<"linelist">>, <<"bool">>, <<"int">>, <<"float">> }

\* default arguments of every kind: not passed, None, "", [], 0 and "v"
IniDefaultsAll == {NOT_SET, None, << >>, <<"[]">>, <<"0">>, <<"v">>}

\* help arguments, the empty one included
IniHelpsAll == {<<"h">>, << >>}

\* get_ini_default_for_type
get_ini_default_for_type(type) ==
    IF type \in {<<"paths">>, <<"pathlist">>, <<"args">>, <<"linelist">>}
        THEN <<"[]">>
    ELSE IF type = <<"bool">> THEN <<"False">>
    ELSE IF type = <<"int">> THEN <<"0">>
    ELSE IF type = <<"float">> THEN <<"0.0">>
    ELSE << >>

\* dict assignment d[k] = v
DictSet(d, k, v) == [x \in (DOMAIN d) \cup {k} |-> IF x = k THEN v ELSE d[x]]

\* the empty dict
EmptyDict == [x \in {} |-> None]

\* The alias loop of addini from index i on, with the alias map built so far:
\* the first alias that is a key of _inidict, or already a key of _ini_aliases,
\* raises and leaves what was stored before it.
RECURSIVE AliasLoop(_, _, _, _, _)
AliasLoop(dict, amap, name, aliases, i) ==
    IF i > Len(aliases) THEN [raised |-> "none", amap |-> amap]
    ELSE IF aliases[i] \in DOMAIN dict THEN [raised |-> "conflict", amap |-> amap]
    ELSE IF aliases[i] \in DOMAIN amap THEN [raised |-> "already", amap |-> amap]
    ELSE AliasLoop(dict, DictSet(amap, aliases[i], name), name, aliases, i + 1)

\* IniEntry consulting the table for a default of None as well
IniEntry_NoneAsNotSet(help, type, default) ==
    LET t == IF type = None THEN <<"string">> ELSE type
        d == IF default \in {NOT_SET, None} THEN get_ini_default_for_type(t)
             ELSE default
    IN  [help |-> help, type |-> t, default |-> d]

\* the entry (help, type, default) addini stores under name
IniEntry(help, type, default) ==
    LET t == IF type = None THEN <<"string">> ELSE type
        d == IF default = NOT_SET THEN get_ini_default_for_type(t) ELSE default
    IN  [help |-> help, type |-> t, default |-> d]

\* addini running the alias loop first and storing the entry only when no
\* alias was refused
addini_AliasesFirst(name, help, type, default, aliases) ==
    LET r == AliasLoop(inidict, ini_aliases, name, aliases, 1)
    IN  /\ inidict' = IF r.raised = "none"
                          THEN DictSet(inidict, name, IniEntry(help, type, default))
                      ELSE inidict
        /\ ini_aliases' = r.amap
        /\ iniRaised' = r.raised
        /\ iniCall' = [name |-> name, help |-> help, type |-> type,
                       default |-> default, aliases |-> aliases]
        /\ UNCHANGED <<argVars, optVars, regVars, paVars, ovrVars, fmtVars>>

\* Parser.addini(name, help, type, default, aliases=aliases)
addini(name, help, type, default, aliases) ==
    LET dict == DictSet(inidict, name, IniEntry(help, type, default))
        r == AliasLoop(dict, ini_aliases, name, aliases, 1)
    IN  /\ inidict' = dict
        /\ ini_aliases' = r.amap
        /\ iniRaised' = r.raised
        /\ iniCall' = [name |-> name, help |-> help, type |-> type,
                       default |-> default, aliases |-> aliases]
        /\ UNCHANGED <<argVars, optVars, regVars, paVars, ovrVars, fmtVars>>

IniFresh ==
    /\ inidict = EmptyDict
    /\ ini_aliases = EmptyDict
    /\ iniCall = [name |-> << >>, help |-> << >>, type |-> None,
                  default |-> NOT_SET, aliases |-> << >>]
    /\ iniRaised = "none"

\* -------------------------------------------------------------- Argument

\* the characters for which str.islower() is true, among those used here
LowerChars == {"a", "b", "c", "d"}

\* str.replace(old, new) for one-character old and new
Replace(str, old, new) ==
    [i \in 1..Len(str) |-> IF str[i] = old THEN new ELSE str[i]]

\* str[n:], n counted from 0
From(str, n) == SubSeq(str, n + 1, Len(str))

\* the value an Argument has when its construction raised ArgumentError
Failed(err) ==
    [err |-> err, _short_opts |-> << >>, _long_opts |-> << >>, dest |-> None]

\* Argument._set_opt_strings from index i on
RECURSIVE set_opt_strings(_, _, _, _)
set_opt_strings(opts, i, short, long) ==
    IF i > Len(opts)
        THEN [err |-> "none", _short_opts |-> short, _long_opts |-> long,
              dest |-> None]
    ELSE LET opt == opts[i] IN
        IF Len(opt) < 2 THEN Failed("too_short")
        ELSE IF Len(opt) = 2 THEN
            IF ~(opt[1] = "-" /\ opt[2] # "-") THEN Failed("bad_short")
            ELSE set_opt_strings(opts, i + 1, Append(short, opt), long)
        ELSE
            IF ~(opt[1] = "-" /\ opt[2] = "-" /\ opt[3] # "-")
                THEN Failed("bad_long")
            ELSE set_opt_strings(opts, i + 1, short, Append(long, opt))

\* the truth value Python gives a str-or-None
Truthy(x) == x # None /\ x # << >>

\* DeriveDest with the short and the long branch in the wrong order
DeriveDest_ShortFirst(a, dest) ==
    IF Truthy(dest) THEN [a EXCEPT !.dest = dest]
    ELSE IF a._short_opts # << >>
        THEN [a EXCEPT !.dest = From(a._short_opts[1], 1)]
    ELSE IF a._long_opts # << >>
        THEN [a EXCEPT !.dest = Replace(From(a._long_opts[1], 2), "-", "_")]
    ELSE Failed("need_option")

\* the dest chosen by Argument.__init__ once the option strings are split
DeriveDest(a, dest) ==
    IF Truthy(dest) THEN [a EXCEPT !.dest = dest]
    ELSE IF a._long_opts # << >>
        THEN [a EXCEPT !.dest = Replace(From(a._long_opts[1], 2), "-", "_")]
    ELSE IF a._short_opts # << >>
        THEN [a EXCEPT !.dest = From(a._short_opts[1], 1)]
    ELSE Failed("need_option")

\* Argument(*names, dest=dest)
Argument(names, dest) ==
    LET a == set_opt_strings(names, 1, << >>, << >>)
    IN  IF a.err # "none" THEN a ELSE DeriveDest(a, dest)

\* Argument.names()
names(a) == a._short_opts \o a._long_opts

\* the option strings a caller may pass, well-formed and malformed
ArgStrings ==
    { <<"-">>, <<"-", "a">>, <<"-", "A">>, <<"-", "-">>, <<"-", "a", "b">>,
      <<"-", "-", "a", "b">>, <<"-", "-", "a", "-", "b", "-", "c">>,
      <<"-", "-", "-">> }

\* the longest list of names one Argument is built from
MaxNames == 2

\* the *names a caller may pass
ArgNameLists == UNION {[1..n -> ArgStrings] : n \in 0..MaxNames}

\* the dest attribute a caller may pass: absent, empty or a name
ArgDests == {None, << >>, <<"d">>}

ArgFresh ==
    /\ argNames = << >>
    /\ argDest = None
    /\ arg = Failed("unbuilt")

\* option = Argument(*names, dest=dest)
ArgumentInit(nms, dest) ==
    /\ argNames' = nms
    /\ argDest' = dest
    /\ arg' = Argument(nms, dest)
    /\ UNCHANGED <<iniVars, optVars, regVars, paVars, ovrVars, fmtVars>>

\* ----------------------------------------------------------- OptionGroup

\* LowercaseReserved looking at the first short option only
LowercaseReserved_FirstOnly(option) ==
    /\ option._short_opts # << >>
    /\ option._short_opts[1][1] = "-"
    /\ option._short_opts[1][2] \in LowerChars

\* the check of _addoption_instance: some short option is lowercase
LowercaseReserved(option) ==
    \E i \in 1..Len(option._short_opts) :
        LET opt == option._short_opts[i]
        IN  opt[1] = "-" /\ opt[2] \in LowerChars

\* Parser.processoption: the hook is called when there is one and a dest
processoption(hook, seen, option) ==
    IF hook /\ Truthy(option.dest) THEN Append(seen, option) ELSE seen

\* OptionGroup._addoption_instance(option, shortupper) on a group holding opts
_addoption_instance(opts, hook, seen, option, shortupper) ==
    IF ~shortupper /\ LowercaseReserved(option)
        THEN [raised |-> "lowercase", options |-> opts, processed |-> seen]
    ELSE [raised |-> "none", options |-> Append(opts, option),
          processed |-> processoption(hook, seen, option)]

\* name for opt in self.options for name in opt.names()
GroupNames(opts) ==
    UNION {{names(opts[i])[j] : j \in 1..Len(names(opts[i]))} :
           i \in 1..Len(opts)}

\* set(opts).intersection(...) of OptionGroup.addoption
Conflict(opts, nms) == {nms[i] : i \in 1..Len(nms)} \cap GroupNames(opts)

\* OptionGroup.addoption(*nms, dest=dest) on a group holding opts
GroupAddoption(opts, hook, seen, nms, dest) ==
    IF Conflict(opts, nms) # {}
        THEN [raised |-> "conflict", options |-> opts, processed |-> seen]
    ELSE LET option == Argument(nms, dest) IN
        IF option.err # "none"
            THEN [raised |-> option.err, options |-> opts, processed |-> seen]
        ELSE _addoption_instance(opts, hook, seen, option, FALSE)

\* OptionGroup._addoption(*nms, dest=dest) on a group holding opts
Group_addoption(opts, hook, seen, nms, dest) ==
    LET option == Argument(nms, dest) IN
    IF option.err # "none"
        THEN [raised |-> option.err, options |-> opts, processed |-> seen]
    ELSE _addoption_instance(opts, hook, seen, option, TRUE)

\* the option strings passed to the group
OptStrings ==
    { <<"-", "a">>, <<"-", "A">>, <<"-", "1">>, <<"-", "-", "a", "b">>,
      <<"-">> }

\* the *opts a caller may pass to the group: one or two names
OptNameLists ==
    {<<n>> : n \in OptStrings} \cup {<<n, m>> : n, m \in OptStrings}

\* the most options the group is given
MaxOptions == 2

OptFresh ==
    /\ options = << >>
    /\ processed = << >>
    /\ optCall = [priv |-> FALSE, opts |-> << >>]
    /\ optRaised = "none"

\* group.addoption(*nms)
addoption(nms) ==
    LET r == GroupAddoption(options, hasHook, processed, nms, None) IN
    /\ Len(options) < MaxOptions
    /\ options' = r.options
    /\ processed' = r.processed
    /\ optRaised' = r.raised
    /\ optCall' = [priv |-> FALSE, opts |-> nms]
    /\ UNCHANGED <<hasHook, iniVars, argVars, regVars, paVars, ovrVars, fmtVars>>

\* group._addoption(*nms)
_addoption(nms) ==
    LET r == Group_addoption(options, hasHook, processed, nms, None) IN
    /\ Len(options) < MaxOptions
    /\ options' = r.options
    /\ processed' = r.processed
    /\ optRaised' = r.raised
    /\ optCall' = [priv |-> TRUE, opts |-> nms]
    /\ UNCHANGED <<hasHook, iniVars, argVars, regVars, paVars, ovrVars, fmtVars>>

\* ---------------------------------------------------------------- Parser

\* the number of group names callers use
MaxGroups == 4

\* the group names callers use: "g", "gg", ...
RegGroupNames == {[i \in 1..k |-> "g"] : k \in 1..MaxGroups}

\* the group names the callers that also register options and parse use
ParserGroupNames == {<<"g">>, <<"g", "g">>}

\* the description passed with a group name: some groups have none
DescriptionOf(name) == IF Len(name) = 2 THEN <<"D">> ELSE << >>

\* the loop of getgroup that looks for the group named after: the value of i
\* when the loop ends, from index k (counted from 0) on
RECURSIVE AfterLoop(_, _, _, _)
AfterLoop(grps, after, k, i) ==
    IF k >= Len(grps) THEN i
    ELSE IF grps[k + 1].name = after THEN k
    ELSE AfterLoop(grps, after, k + 1, k)

\* list.insert(index, item), index >= 0
Insert(list, index, item) ==
    IF index >= Len(list) THEN Append(list, item)
    ELSE SubSeq(list, 1, index) \o <<item>> \o SubSeq(list, index + 1, Len(list))

\* OptionGroup(name, description, parser=self)
OptionGroup(name, description) ==
    [name |-> name, description |-> description, options |-> << >>]

\* the index in _groups of the group getgroup finds by name, 0 when none
FindGroup(grps, name) ==
    IF \E k \in 1..Len(grps) : grps[k].name = name
        THEN Least({k \in 1..Len(grps) : grps[k].name = name})
    ELSE 0

\* GetGroup putting the new group after the first group when none is named
\* after
GetGroup_AfterFirst(grps, name, description, after) ==
    IF FindGroup(grps, name) # 0 THEN grps
    ELSE IF \E k \in 1..Len(grps) : grps[k].name = after
        THEN Insert(grps, AfterLoop(grps, after, 0, 0) + 1,
                    OptionGroup(name, description))
    ELSE Insert(grps, 1, OptionGroup(name, description))

\* _groups after Parser.getgroup(name, description, after)
GetGroup(grps, name, description, after) ==
    IF FindGroup(grps, name) # 0 THEN grps
    ELSE Insert(grps, AfterLoop(grps, after, 0, 0) + 1,
                OptionGroup(name, description))

\* Parser.getgroup(name, description, after)
getgroup(name, after) ==
    LET new == GetGroup(groups, name, DescriptionOf(name), after) IN
    /\ groups' = new
    /\ regCall' = [op |-> "getgroup", name |-> name, after |-> after]
    /\ regResult' = new[FindGroup(new, name)]
    /\ UNCHANGED <<anonymous, iniVars, argVars, optVars, paVars, ovrVars, fmtVars>>

\* the most options registered with the parser, over all its groups
MaxRegOptions == 2

\* the *opts passed when registering with the parser
RegNameLists ==
    {<<<<"-", "-", "x">>>>, <<<<"-", "Y">>>>, <<<<"-", "Y">>, <<"-", "-", "x">>>>}

\* the number of options held by the groups from index k on
RECURSIVE CountOptions(_, _)
CountOptions(grps, k) ==
    IF k > Len(grps) THEN 0
    ELSE Len(grps[k].options) + CountOptions(grps, k + 1)

\* the number of options registered so far
Registered == Len(anonymous) + CountOptions(groups, 1)

\* Parser.addoption(*nms), or _anonymous._addoption(*nms) when priv
parser_addoption(nms, priv) ==
    LET r == IF priv THEN Group_addoption(anonymous, FALSE, << >>, nms, None)
             ELSE GroupAddoption(anonymous, FALSE, << >>, nms, None) IN
    /\ Registered < MaxRegOptions
    /\ anonymous' = r.options
    /\ regCall' = [op |-> "addoption", group |-> 0, opts |-> nms, priv |-> priv]
    /\ regResult' = <<r.raised>>
    /\ UNCHANGED <<groups, iniVars, argVars, optVars, paVars, ovrVars, fmtVars>>

\* group.addoption(*nms), or group._addoption(*nms) when priv, on the group
\* at index g of _groups
group_addoption(g, nms, priv) ==
    LET opts == groups[g].options
        r == IF priv THEN Group_addoption(opts, FALSE, << >>, nms, None)
             ELSE GroupAddoption(opts, FALSE, << >>, nms, None) IN
    /\ Registered < MaxRegOptions
    /\ groups' = [groups EXCEPT ![g].options = r.options]
    /\ regCall' = [op |-> "addoption", group |-> g, opts |-> nms, priv |-> priv]
    /\ regResult' = <<r.raised>>
    /\ UNCHANGED <<anonymous, iniVars, argVars, optVars, paVars, ovrVars, fmtVars>>

\* the argparse action add_argument builds for an option
ArgparseAction(option) == [option_strings |-> names(option), dest |-> option.dest]

\* arggroup.add_argument(*n, **a) for the options of one group from index i on:
\* argparse refuses an option string that the parser already holds
RECURSIVE AddArguments(_, _, _, _)
AddArguments(opts, i, actions, taken) ==
    IF i > Len(opts) THEN [raised |-> "none", actions |-> actions, taken |-> taken]
    ELSE IF Items(names(opts[i])) \cap taken # {}
        THEN [raised |-> "ArgumentError", actions |-> actions, taken |-> taken]
    ELSE AddArguments(opts, i + 1, Append(actions, ArgparseAction(opts[i])),
                      taken \cup Items(names(opts[i])))

\* the loop of _getparser over groups from index k on
RECURSIVE AddGroups(_, _, _, _)
AddGroups(gs, k, sections, taken) ==
    IF k > Len(gs) THEN [raised |-> "none", sections |-> sections]
    ELSE IF gs[k].options = << >> THEN AddGroups(gs, k + 1, sections, taken)
    ELSE LET desc == IF Truthy(gs[k].description) THEN gs[k].description
                     ELSE gs[k].name
             r == AddArguments(gs[k].options, 1, << >>, taken)
         IN  IF r.raised # "none" THEN [raised |-> r.raised, sections |-> << >>]
             ELSE AddGroups(gs, k + 1,
                            Append(sections, [title |-> desc, actions |-> r.actions]),
                            r.taken)

\* _getparser compiling the anonymous group first
_getparser_AnonymousFirst(grps, anon) ==
    AddGroups(<<[name |-> <<"Custom options">>, description |-> << >>,
                 options |-> anon]>> \o grps,
              1, << >>, {})

\* Parser._getparser(): the sections of the grammar, or the error of argparse
_getparser(grps, anon) ==
    AddGroups(grps \o <<[name |-> <<"Custom options">>, description |-> << >>,
                         options |-> anon]>>,
              1, << >>, {})

\* " ".join(strs) from index i on
RECURSIVE Join(_, _, _)
Join(sep, strs, i) ==
    IF i > Len(strs) THEN << >>
    ELSE IF i = Len(strs) THEN strs[i]
    ELSE strs[i] \o sep \o Join(sep, strs, i + 1)

\* the order of the characters used as keys of extra_info
Ord(c) == CASE c = "a" -> 1 [] c = "b" -> 2 [] c = "c" -> 3 [] OTHER -> 4

\* sorted(extra_info.items()): extra_info is kept as the sequence of its
\* (key, value) items in insertion order, the keys one character long
RECURSIVE Sorted(_)
Sorted(items) ==
    IF items = << >> THEN << >>
    ELSE LET m == CHOOSE i \in 1..Len(items) :
                    \A j \in 1..Len(items) : Ord(items[i][1][1]) <= Ord(items[j][1][1])
         IN  <<items[m]>> \o
             Sorted(SubSeq(items, 1, m - 1) \o SubSeq(items, m + 1, Len(items)))

\* the lines f"  {k}: {v}" appended for the sorted items, joined by "\n"
RECURSIVE InfoLines(_, _)
InfoLines(items, i) ==
    IF i > Len(items) THEN << >>
    ELSE <<"\n", "  ">> \o items[i][1] \o <<": ">> \o items[i][2]
         \o InfoLines(items, i + 1)

\* the test of parse_args on one unrecognized argument: arg and arg[0] == "-"
LooksLikeFlag(token) == token # << >> /\ token[1] = "-"

\* parse_args testing the first unrecognized argument only
parse_args_FirstOnly(file_or_dir, unrecognized, extra_info) ==
    IF unrecognized # << >> /\ LooksLikeFlag(unrecognized[1])
        THEN [raised |-> "UsageError",
              message |-> <<"unrecognized arguments: ">>
                          \o Join(<<" ">>, unrecognized, 1)
                          \o InfoLines(Sorted(extra_info), 1),
              file_or_dir |-> file_or_dir]
    ELSE [raised |-> "none", message |-> << >>,
          file_or_dir |-> file_or_dir \o unrecognized]

\* MyOptionParser.parse_args once parse_known_args has returned file_or_dir
\* and unrecognized: the usage error, or file_or_dir extended
parse_args(file_or_dir, unrecognized, extra_info) ==
    IF \E i \in 1..Len(unrecognized) : LooksLikeFlag(unrecognized[i])
        THEN [raised |-> "UsageError",
              message |-> <<"unrecognized arguments: ">>
                          \o Join(<<" ">>, unrecognized, 1)
                          \o InfoLines(Sorted(extra_info), 1),
              file_or_dir |-> file_or_dir]
    ELSE [raised |-> "none", message |-> << >>,
          file_or_dir |-> file_or_dir \o unrecognized]

\* the leftover tokens parse_known_args may return
LeftoverTokens == {<<"-", "-", "z">>, <<"-">>, <<"f">>, << >>}

\* the most leftover tokens parse_known_args returns
MaxLeftover == 2

\* the lists of leftover tokens parse_known_args may return
LeftoverLists == UNION {[1..n -> LeftoverTokens] : n \in 0..MaxLeftover}

\* the values the grammar may have collected for file_or_dir
CollectedLists == {<< >>, <<<<"e">>>>}

\* the extra_info a parser may carry, as items in insertion order
ExtraInfos ==
    { << >>, << <<<<"a">>, <<"1">>>> >>,
      << <<<<"b">>, <<"2">>>>, <<<<"a">>, <<"1">>>> >> }

PaFresh ==
    /\ paCall = [file_or_dir |-> << >>, unrecognized |-> << >>,
                 extra_info |-> << >>]
    /\ paResult = [raised |-> "unparsed", message |-> << >>,
                   file_or_dir |-> << >>]

\* MyOptionParser.parse_args(args) on a parser whose parse_known_args(args)
\* returns a namespace holding file_or_dir, and unrecognized
parse_args_call(file_or_dir, unrecognized, extra_info) ==
    /\ paCall' = [file_or_dir |-> file_or_dir, unrecognized |-> unrecognized,
                  extra_info |-> extra_info]
    /\ paResult' = parse_args(file_or_dir, unrecognized, extra_info)
    /\ UNCHANGED <<iniVars, argVars, optVars, regVars, ovrVars, fmtVars>>

\* the actions of all sections of a grammar, in order
RECURSIVE Actions(_, _)
Actions(sections, k) ==
    IF k > Len(sections) THEN << >>
    ELSE sections[k].actions \o Actions(sections, k + 1)

\* the items of seq at the indices where keep is TRUE, in order
RECURSIVE Pick(_, _, _)
Pick(seq, keep, i) ==
    IF i > Len(seq) THEN << >>
    ELSE (IF keep[i] THEN <<seq[i]>> ELSE << >>) \o Pick(seq, keep, i + 1)

\* argparse's parse_known_args(args) on the compiled sections: a token that is
\* an option string sets its dest; another token that starts with "-" (and is
\* not "-" alone) is left over; of the other tokens the first n are collected
\* by file_or_dir and the rest are left over
parse_known_args(sections, args, n) ==
    LET acts == Actions(sections, 1)
        known == UNION {Items(acts[a].option_strings) : a \in 1..Len(acts)}
        Optional(i) == Len(args[i]) > 1 /\ args[i][1] = "-"
        Before(i) == Cardinality({j \in 1..(i - 1) : ~Optional(j)})
        Collected(i) == ~Optional(i) /\ Before(i) < n
        Extra(i) == IF Optional(i) THEN args[i] \notin known ELSE Before(i) >= n
    IN  [namespace |-> [d \in {acts[a].dest : a \in 1..Len(acts)} |->
                          \E a \in 1..Len(acts), i \in 1..Len(args) :
                              acts[a].dest = d /\ args[i] \in Items(acts[a].option_strings)],
         file_or_dir |-> Pick(args, [i \in 1..Len(args) |-> Collected(i)], 1),
         unrecognized |-> Pick(args, [i \in 1..Len(args) |-> Extra(i)], 1)]

\* the tokens of a command line
ArgTokens == {<<"-", "-", "x">>, <<"-", "Y">>, <<"f">>}

\* the most tokens on a command line
MaxArgs == 1

\* the command lines parsed
ArgLists == UNION {[1..n -> ArgTokens] : n \in 0..MaxArgs}

\* Parser.parse(args) when policy, else Parser.parse_known_and_unknown_args(args):
\* the grammar is compiled by _getparser, then argparse parses args
ParseWith(grps, anon, args, n, policy) ==
    LET g == _getparser(grps, anon) IN
    IF g.raised # "none"
        THEN [raised |-> g.raised, sections |-> << >>, namespace |-> << >>,
              file_or_dir |-> << >>, unrecognized |-> << >>]
    ELSE LET k == parse_known_args(g.sections, args, n)
             r == parse_args(k.file_or_dir, k.unrecognized, << >>)
         IN  IF policy
                 THEN [raised |-> r.raised, sections |-> g.sections,
                       namespace |-> k.namespace, file_or_dir |-> r.file_or_dir,
                       unrecognized |-> << >>]
             ELSE [raised |-> "none", sections |-> g.sections,
                   namespace |-> k.namespace, file_or_dir |-> k.file_or_dir,
                   unrecognized |-> k.unrecognized]

\* Parser.parse(args)
parse(args, n) ==
    /\ n <= Len(args)
    /\ regCall' = [op |-> "parse", args |-> args]
    /\ regResult' = ParseWith(groups, anonymous, args, n, TRUE)
    /\ UNCHANGED <<groups, anonymous, iniVars, argVars, optVars, paVars, ovrVars, fmtVars>>

\* Parser.parse_known_and_unknown_args(args)
parse_known_and_unknown_args(args, n) ==
    /\ n <= Len(args)
    /\ regCall' = [op |-> "parse_known", args |-> args]
    /\ regResult' = ParseWith(groups, anonymous, args, n, FALSE)
    /\ UNCHANGED <<groups, anonymous, iniVars, argVars, optVars, paVars, ovrVars, fmtVars>>

RegFresh ==
    /\ groups = << >>
    /\ anonymous = << >>
    /\ regCall = [op |-> "init"]
    /\ regResult = None

\* ------------------------------------------------------ OverrideIniAction

\* the override flags registered: dest, ini_option and ini_value of each
OverrideFlags ==
    { [dest |-> <<"c">>, ini_option |-> <<"k">>, ini_value |-> <<"/", "t">>],
      [dest |-> <<"d">>, ini_option |-> <<"k">>, ini_value |-> <<"v">>],
      [dest |-> <<"e">>, ini_option |-> <<"m">>, ini_value |-> << >>] }

\* the most activations on one command line
MaxActivations == 3

\* a value of the override_ini attribute: None, or a list of str
NoneValue == [none |-> TRUE, items |-> << >>]
ListValue(items) == [none |-> FALSE, items |-> items]

\* the override_ini a namespace may hold before the first activation: the
\* attribute missing, None, or the entries of earlier -o options
EarlierOverrides ==
    { [missing |-> TRUE, value |-> NoneValue],
      [missing |-> FALSE, value |-> NoneValue],
      [missing |-> FALSE, value |-> ListValue(<<<<"x", "=", "1">>>>)] }

\* the namespace argparse starts from
StartNamespace(earlier) ==
    IF earlier.missing THEN [x \in {} |-> NoneValue]
    ELSE [x \in {<<"override_ini">>} |-> earlier.value]

\* getattr(namespace, "override_ini", None)
GetOverrideIni(ns) ==
    IF <<"override_ini">> \in DOMAIN ns THEN ns[<<"override_ini">>] ELSE NoneValue

\* OverrideIniCall starting a new list at every activation
OverrideIniCall_Fresh(ns, flag) ==
    DictSet(DictSet(ns, flag.dest, TRUE), <<"override_ini">>,
            ListValue(<<flag.ini_option \o <<"=">> \o flag.ini_value>>))

\* OverrideIniAction.__call__(parser, namespace): the namespace it leaves
OverrideIniCall(ns, flag) ==
    LET set == DictSet(ns, flag.dest, TRUE)
        got == GetOverrideIni(set)
        current_overrides == IF got.none THEN << >> ELSE got.items
    IN  DictSet(set, <<"override_ini">>,
                ListValue(Append(current_overrides,
                                 flag.ini_option \o <<"=">> \o flag.ini_value)))

OvrFresh(earlier) ==
    /\ namespace = StartNamespace(earlier)
    /\ ovrEarlier = earlier
    /\ ovrLog = << >>

\* argparse meets the option string of flag on the command line
activate(flag) ==
    /\ Len(ovrLog) < MaxActivations
    /\ namespace' = OverrideIniCall(namespace, flag)
    /\ ovrLog' = Append(ovrLog, flag)
    /\ UNCHANGED <<ovrEarlier, iniVars, argVars, optVars, regVars, paVars, fmtVars>>

\* ------------------------------------------- DropShorterLongHelpFormatter

\* str.split(", ") from index i (counted from 1) on, cur being the piece read
\* so far
RECURSIVE SplitFrom(_, _, _)
SplitFrom(str, i, cur) ==
    IF i > Len(str) THEN <<cur>>
    ELSE IF i < Len(str) /\ str[i] = "," /\ str[i + 1] = " "
        THEN <<cur>> \o SplitFrom(str, i + 2, << >>)
    ELSE SplitFrom(str, i + 1, Append(cur, str[i]))

\* str.replace(old, "") for a one-character old
Remove(str, old) == SelectSeq(str, LAMBDA c : c # old)

\* str.replace(old, new, 1) for one-character old and new
ReplaceFirst(str, old, new) ==
    IF \E i \in 1..Len(str) : str[i] = old
        THEN LET first == Least({i \in 1..Len(str) : str[i] = old})
             IN  [i \in 1..Len(str) |-> IF i = first THEN new ELSE str[i]]
    ELSE str

\* the parts argparse joins for an optional: the option strings, each followed
\* by " " and the args string when the action takes a value
InvocationParts(option_strings, metavar) ==
    [i \in 1..Len(option_strings) |->
        IF metavar = None THEN option_strings[i]
        ELSE option_strings[i] \o <<" ">> \o metavar]

\* super()._format_action_invocation(action): the metavar of a positional,
\* the parts of an optional joined by ", "
super_format_action_invocation(action) ==
    IF action.option_strings = << >> THEN action.metavar
    ELSE Join(<<",", " ">>, InvocationParts(action.option_strings, action.metavar), 1)

\* the test both loops make on an option of two characters or more:
\* len(option) == 2 or option[2] == " "
IsShortForm(option) == Len(option) = 2 \/ option[3] = " "

\* the test of the first loop that stores xxoption under shortened, keeping
\* the spelling stored first
Supersedes_FirstSeen(short_long, shortened, xxoption) ==
    shortened \notin DOMAIN short_long

\* the test of the first loop that stores xxoption under shortened
Supersedes(short_long, shortened, xxoption) ==
    \/ shortened \notin DOMAIN short_long
    \/ Len(short_long[shortened]) < Len(xxoption)

\* the first loop of _format_action_invocation from index i on: short_long
\* filled, or the error raised (option[2] on an option shorter than two
\* characters raises IndexError)
RECURSIVE FillShortLong(_, _, _)
FillShortLong(opts, i, short_long) ==
    IF i > Len(opts) THEN [raised |-> "none", short_long |-> short_long]
    ELSE LET option == opts[i] IN
        IF Len(option) < 2
            THEN [raised |-> "IndexError", short_long |-> short_long]
        ELSE IF IsShortForm(option) THEN FillShortLong(opts, i + 1, short_long)
        ELSE IF ~(option[1] = "-" /\ option[2] = "-")
            THEN [raised |-> "ArgumentError", short_long |-> short_long]
        ELSE LET xxoption == From(option, 2)
                 shortened == Remove(xxoption, "-")
             IN  IF Supersedes(short_long, shortened, xxoption)
                     THEN FillShortLong(opts, i + 1,
                                        DictSet(short_long, shortened, xxoption))
                 ELSE FillShortLong(opts, i + 1, short_long)

\* the second loop of _format_action_invocation from index i on: return_list
RECURSIVE ReturnList(_, _, _)
ReturnList(opts, i, short_long) ==
    IF i > Len(opts) THEN << >>
    ELSE LET option == opts[i]
             key == Remove(option, "-")
             short == IF IsShortForm(option) THEN <<option>> ELSE << >>
             long == IF key \in DOMAIN short_long
                        /\ From(option, 2) = short_long[key]
                        THEN <<ReplaceFirst(option, " ", "=")>>
                     ELSE << >>
         IN  short \o long \o ReturnList(opts, i + 1, short_long)

\* DropShorterLongHelpFormatter._format_action_invocation(action): what it
\* returns or raises, and the _formatted_action_invocation it leaves on action
_format_action_invocation(action) ==
    LET orgstr == super_format_action_invocation(action) IN
    IF orgstr # << >> /\ orgstr[1] # "-"
        THEN [raised |-> "none", value |-> orgstr, cached |-> action.cached]
    ELSE IF Truthy(action.cached)
        THEN [raised |-> "none", value |-> action.cached, cached |-> action.cached]
    ELSE LET opts == SplitFrom(orgstr, 1, << >>) IN
        IF Len(opts) = 2 /\ (Len(opts[1]) = 2 \/ Len(opts[2]) = 2)
            THEN [raised |-> "none", value |-> orgstr, cached |-> orgstr]
        ELSE LET f == FillShortLong(opts, 1, EmptyDict) IN
            IF f.raised # "none"
                THEN [raised |-> f.raised, value |-> << >>, cached |-> action.cached]
            ELSE LET formatted ==
                         Join(<<",", " ">>, ReturnList(opts, 1, f.short_long), 1)
                 IN  [raised |-> "none", value |-> formatted, cached |-> formatted]

\* the option strings of the actions shown: short forms and long forms as
\* Argument accepts them, some differing in hyphens only
FmtStrings ==
    { <<"-", "a">>, <<"-", "-", "x">>, <<"-", "-", "t", "w">>,
      <<"-", "-", "t", "-", "w">>, <<"-", "-", "t", "w", "-">> }

\* the most option strings of one action
MaxSpellings == 3

\* the option strings of one optional action
FmtStringLists == UNION {[1..n -> FmtStrings] : n \in 1..MaxSpellings}

\* the args string of an action: None when it takes no value
FmtMetavars == {None, <<"V">>}

\* the times one action is rendered
MaxRenders == 2

\* the action add_argument(*option_strings) built, or the positional when
\* option_strings is empty: nothing is cached on it yet
FmtStart(option_strings, metavar) ==
    /\ option_strings = << >> => metavar # None
    /\ fmtAction = [option_strings |-> option_strings, metavar |-> metavar,
                    cached |-> None, renders |-> 0]
    /\ fmtResult = [raised |-> "unrendered", value |-> << >>]

FmtFresh == FmtStart(<< >>, <<"f">>)

\* formatter._format_action_invocation(action) on the action at hand
format_action_invocation_call ==
    LET r == _format_action_invocation(fmtAction) IN
    /\ fmtAction.renders < MaxRenders
    /\ fmtAction' = [fmtAction EXCEPT !.cached = r.cached,
                                      !.renders = fmtAction.renders + 1]
    /\ fmtResult' = [raised |-> r.raised, value |-> r.value]
    /\ UNCHANGED <<iniVars, argVars, optVars, regVars, paVars, ovrVars>>

\* ------------------------------------------------------- specifications

\* a freshly constructed Parser, with no Argument built yet
Fresh ==
    /\ IniFresh /\ ArgFresh /\ OptFresh /\ RegFresh /\ PaFresh /\ FmtFresh
    /\ OvrFresh([missing |-> TRUE, value |-> NoneValue])

InitIni == Fresh /\ hasHook = FALSE

NextIni ==
    \E name \in IniNames, help \in IniHelps, type \in IniTypes,
       default \in IniDefaults, aliases \in IniAliasLists :
        addini(name, help, type, default, aliases)

\* a Parser's ini registry under any sequence of addini calls
SpecIni == InitIni /\ [][NextIni]_vars

InitIniEntry == Fresh /\ hasHook = FALSE

NextIniEntry ==
    \E name \in {<<"t">>}, help \in IniHelpsAll, type \in IniTypesAll,
       default \in IniDefaultsAll, aliases \in {<< >>, <<<<"u">>>>} :
        addini(name, help, type, default, aliases)

\* one ini key registered and registered again, with every type and with
\* defaults of every kind
SpecIniEntry == InitIniEntry /\ [][NextIniEntry]_vars

InitArg == Fresh /\ hasHook = FALSE

NextArg ==
    \E nms \in ArgNameLists, dest \in ArgDests : ArgumentInit(nms, dest)

\* Argument construction on any names and dest
SpecArg == InitArg /\ [][NextArg]_vars

InitOpt == Fresh /\ hasHook \in BOOLEAN

NextOpt ==
    \/ \E nms \in OptNameLists : addoption(nms)
    \/ \E nms \in OptNameLists : _addoption(nms)

\* one OptionGroup under any sequence of addoption and _addoption calls
SpecOpt == InitOpt /\ [][NextOpt]_vars

Init == Fresh /\ hasHook = FALSE

Next ==
    \/ \E name \in ParserGroupNames, after \in ParserGroupNames \cup {None} :
            getgroup(name, after)
    \/ \E nms \in RegNameLists, priv \in BOOLEAN : parser_addoption(nms, priv)
    \/ \E g \in 1..Len(groups), nms \in RegNameLists, priv \in BOOLEAN :
            group_addoption(g, nms, priv)
    \/ \E args \in ArgLists, n \in 0..MaxArgs : parse(args, n)
    \/ \E args \in ArgLists, n \in 0..MaxArgs :
            parse_known_and_unknown_args(args, n)

InitGroups == Fresh /\ hasHook = FALSE

NextGroups ==
    \E name \in RegGroupNames, after \in RegGroupNames \cup {None} :
        getgroup(name, after)

\* the groups of a Parser under any sequence of getgroup calls
SpecGroups == InitGroups /\ [][NextGroups]_vars

InitParseArgs == Fresh /\ hasHook = FALSE

NextParseArgs ==
    \E file_or_dir \in CollectedLists, unrecognized \in LeftoverLists,
       extra_info \in ExtraInfos :
        parse_args_call(file_or_dir, unrecognized, extra_info)

\* MyOptionParser.parse_args on whatever parse_known_args returns
SpecParseArgs == InitParseArgs /\ [][NextParseArgs]_vars

InitOverride ==
    /\ IniFresh /\ ArgFresh /\ OptFresh /\ RegFresh /\ PaFresh /\ FmtFresh
    /\ hasHook = FALSE
    /\ \E earlier \in EarlierOverrides : OvrFresh(earlier)

NextOverride == \E flag \in OverrideFlags : activate(flag)

\* the override flags of one command line, activated left to right
SpecOverride == InitOverride /\ [][NextOverride]_vars

InitFormat ==
    /\ IniFresh /\ ArgFresh /\ OptFresh /\ RegFresh /\ PaFresh
    /\ OvrFresh([missing |-> TRUE, value |-> NoneValue])
    /\ hasHook = FALSE
    /\ \E option_strings \in FmtStringLists \cup {<< >>}, metavar \in FmtMetavars :
            FmtStart(option_strings, metavar)

NextFormat == format_action_invocation_call

\* the help formatter rendering the invocation of any one action, once and
\* again
SpecFormat == InitFormat /\ [][NextFormat]_vars

\* a Parser under any interleaving of registrations and parses
Spec == Init /\ [][Next]_vars

\* ------------------------------------------------------- claims on ini keys

\* no str is a key of both _inidict and _ini_aliases
IniDisjoint == (DOMAIN inidict) \cap (DOMAIN ini_aliases) = {}

\* an alias once bound stays bound to the same canonical name
IniAliasesKept ==
    \A a \in DOMAIN ini_aliases :
        a \in DOMAIN ini_aliases' /\ ini_aliases'[a] = ini_aliases[a]

\* C1: after any sequence of addini calls, successful or failing, no string is
\* at once a key of _inidict and a key of _ini_aliases, and no alias is ever
\* rebound to a different canonical name.
C1_RegistryInvariant == [][IniDisjoint' /\ IniAliasesKept]_vars

\* C2: an addini whose name is already an alias fails, and an addini of B that
\* passes an alias already bound to another name A fails.
C2_AliasCollisionsFail ==
    [][/\ iniCall'.name \in DOMAIN ini_aliases => iniRaised' # "none"
       /\ \A i \in 1..Len(iniCall'.aliases) :
            LET s == iniCall'.aliases[i] IN
            (s \in DOMAIN ini_aliases /\ ini_aliases[s] # iniCall'.name)
                => iniRaised' # "none"]_vars

\* the default the table gives for a stored type
TableDefault(type) ==
    CASE type \in {<<"paths">>, <<"pathlist">>, <<"args">>, <<"linelist">>}
            -> <<"[]">>
      [] type = <<"bool">> -> <<"False">>
      [] type = <<"int">> -> <<"0">>
      [] type = <<"float">> -> <<"0.0">>
      [] type = <<"string">> -> << >>

\* C12: after addini(name, help, type, default), _inidict[name] is
\* (help, type, default) with an unpassed type stored as "string", an unpassed
\* default replaced by the table's value for the stored type, and any passed
\* default (None, "", [] and 0 included) stored as passed.
C12_StoredEntry ==
    iniCall.name # << >> =>
        /\ iniCall.name \in DOMAIN inidict
        /\ LET e == inidict[iniCall.name]
               t == IF iniCall.type = None THEN <<"string">> ELSE iniCall.type
           IN  /\ e.help = iniCall.help
               /\ e.type = t
               /\ e.default = IF iniCall.default = NOT_SET THEN TableDefault(t)
                              ELSE iniCall.default

\* a bool key registered with None as its default holds None, not False
C12_Witness ==
    /\ iniCall.name = <<"t">>
    /\ iniCall.type = <<"bool">>
    /\ iniCall.default = None
    /\ inidict[<<"t">>].default = None
    /\ inidict[<<"t">>].type = <<"bool">>

\* C13: after any sequence of addini calls, successful or failing, every
\* alias in _ini_aliases points to a name that is a key of _inidict.
C13_AliasesResolve ==
    \A a \in DOMAIN ini_aliases : ini_aliases[a] \in DOMAIN inidict

\* a call that failed on its second alias after recording its first: the
\* first alias points to the name the failing call registered
C13_Witness ==
    /\ iniRaised = "conflict"
    /\ Len(iniCall.aliases) = 2
    /\ iniCall.aliases[1] \notin DOMAIN inidict
    /\ iniCall.aliases[1] \in DOMAIN ini_aliases
    /\ ini_aliases[iniCall.aliases[1]] = iniCall.name
    /\ iniCall.aliases[2] \in DOMAIN inidict

\* the alias a may not be given to name: it is a key of _inidict once name is
\* stored, or it is already an alias of another name
AliasRefused(a, name) ==
    \/ a \in DOMAIN inidict'
    \/ a \in DOMAIN ini_aliases /\ ini_aliases[a] # name

\* C14: an addini fails only if one of its aliases is a registered key or is
\* already an alias of another name; otherwise, its aliases already recorded
\* for the same name included, it succeeds and every alias points to name
\* (stated for the calls that pass no alias twice).
C14_AliasFailuresOnly ==
    [][LET name == iniCall'.name
           aliases == iniCall'.aliases
       IN  (/\ \A i, j \in 1..Len(aliases) : aliases[i] = aliases[j] => i = j
            /\ \A i \in 1..Len(aliases) : ~AliasRefused(aliases[i], name))
           => /\ iniRaised' = "none"
              /\ \A i \in 1..Len(aliases) :
                    /\ aliases[i] \in DOMAIN ini_aliases'
                    /\ ini_aliases'[aliases[i]] = name]_vars

\* ------------------------------------------------ claims on option groups

\* a well-formed option string: -x, or --x... , x not a dash
WellFormed(n) ==
    \/ Len(n) = 2 /\ n[1] = "-" /\ n[2] # "-"
    \/ Len(n) > 2 /\ n[1] = "-" /\ n[2] = "-" /\ n[3] # "-"

\* C3: in every reachable state of an OptionGroup, under addoption and
\* _addoption calls, no name belongs to two different options of the group.
C3_NoSharedNames ==
    \A i, j \in 1..Len(options) :
        i # j => Items(names(options[i])) \cap Items(names(options[j])) = {}

\* the call of this step repeats a name in its own list
RepeatsAName(nms) == \E i, j \in 1..Len(nms) : i # j /\ nms[i] = nms[j]

\* C4: an addoption of well-formed names whose name list repeats a name, or
\* holds a name that an option of the group already has, fails with the
\* name-collision error.
C4_CollisionsFail ==
    [][(/\ ~optCall'.priv
        /\ \A n \in Items(optCall'.opts) : WellFormed(n)
        /\ \/ RepeatsAName(optCall'.opts)
           \/ Items(optCall'.opts) \cap GroupNames(options) # {})
       => optRaised' = "conflict" /\ options' = options]_vars

\* the short names of a call
ShortNames(nms) == {n \in Items(nms) : Len(n) = 2}

\* the characters for which str.isupper() is true, among those used here
UpperChars == {"A", "B"}

LongAt(nms) == {i \in 1..Len(nms) : Len(nms[i]) > 2}
ShortAt(nms) == {i \in 1..Len(nms) : Len(nms[i]) = 2}

\* C6: the dest of a constructed Argument is the explicit non-empty dest, else
\* the first long name without its "--" and with every "-" turned into "_",
\* else the first short name without its "-"; with no name and no dest the
\* construction fails.
C6_DestDerivation ==
    arg.err # "unbuilt" =>
        /\ (\A n \in Items(argNames) : WellFormed(n))
             /\ (argNames # << >> \/ Truthy(argDest)) => arg.err = "none"
        /\ arg.err = "none" /\ Truthy(argDest) => arg.dest = argDest
        /\ arg.err = "none" /\ ~Truthy(argDest) /\ LongAt(argNames) # {} =>
             LET n == argNames[Least(LongAt(argNames))]
             IN  arg.dest = [k \in 1..(Len(n) - 2) |->
                                IF n[k + 2] = "-" THEN "_" ELSE n[k + 2]]
        /\ arg.err = "none" /\ ~Truthy(argDest) /\ LongAt(argNames) = {}
             /\ ShortAt(argNames) # {} =>
             arg.dest = <<argNames[Least(ShortAt(argNames))][2]>>
        /\ argNames = << >> /\ ~Truthy(argDest) => arg.err # "none"

\* a short name given before a dashed long name, no dest: the long name wins
C6_Witness ==
    /\ arg.err = "none" /\ argDest = None
    /\ Len(argNames) = 2 /\ Len(argNames[1]) = 2 /\ Len(argNames[2]) > 2
    /\ arg.dest = <<"a", "_", "b", "_", "c">>

\* ------------------------------------------------- claims on the Parser

\* the items of extra_info whose keys are in K, in the order of the keys
RECURSIVE InKeyOrder(_, _)
InKeyOrder(items, K) ==
    IF K = {} THEN << >>
    ELSE LET k == CHOOSE x \in K : \A y \in K : Ord(x[1]) <= Ord(y[1])
             i == CHOOSE j \in 1..Len(items) : items[j][1] = k
         IN  <<"\n", "  ">> \o k \o <<": ">> \o items[i][2]
             \o InKeyOrder(items, K \ {k})

\* C7: when some leftover token begins with "-", parse_args raises the usage
\* error whose message is "unrecognized arguments: ", the leftovers joined by
\* spaces, then a line per extra_info item in key order, and file_or_dir is
\* not extended; otherwise (empty tokens included) it succeeds and file_or_dir
\* is what the grammar collected followed by the leftovers in order.
C7_LeftoverPolicy ==
    paResult.raised # "unparsed" =>
        LET u == paCall.unrecognized
            info == paCall.extra_info
        IN  IF \E i \in 1..Len(u) : Len(u[i]) > 0 /\ Head(u[i]) = "-"
                THEN /\ paResult.raised = "UsageError"
                     /\ paResult.message =
                            <<"unrecognized arguments: ">> \o Join(<<" ">>, u, 1)
                            \o InKeyOrder(info, {info[j][1] : j \in 1..Len(info)})
                     /\ paResult.file_or_dir = paCall.file_or_dir
            ELSE /\ paResult.raised = "none"
                 /\ Len(paResult.file_or_dir) = Len(paCall.file_or_dir) + Len(u)
                 /\ \A i \in 1..Len(paCall.file_or_dir) :
                        paResult.file_or_dir[i] = paCall.file_or_dir[i]
                 /\ \A i \in 1..Len(u) :
                        paResult.file_or_dir[Len(paCall.file_or_dir) + i] = u[i]

\* a flag-like token after a plain one was refused, with two extra_info items
\* inserted out of key order
C7_Witness ==
    /\ paResult.raised = "UsageError"
    /\ Len(paCall.unrecognized) = 2
    /\ paCall.unrecognized[1] = <<"f">>
    /\ Len(paCall.extra_info) = 2
    /\ paCall.file_or_dir # << >>

\* C8: getgroup returns the group of that name when there is one and leaves
\* _groups alone; otherwise the new group is put right after the first group
\* named after, and at the end when no group is named after (after unset
\* included), whatever the length of _groups.
C8_GetGroupPlacement ==
    [][regCall'.op = "getgroup" =>
        LET name == regCall'.name
            hits == {k \in 1..Len(groups) : groups[k].name = regCall'.after}
        IN  IF \E k \in 1..Len(groups) : groups[k].name = name
                THEN /\ groups' = groups
                     /\ regResult'.name = name
                     /\ \E k \in 1..Len(groups) : groups[k] = regResult'
            ELSE /\ regResult' = [name |-> name, options |-> << >>,
                                  description |-> DescriptionOf(name)]
                 /\ Len(groups') = Len(groups) + 1
                 /\ IF hits # {}
                        THEN LET f == Least(hits) IN
                             /\ groups'[f + 1] = regResult'
                             /\ \A k \in 1..f : groups'[k] = groups[k]
                             /\ \A k \in (f + 1)..Len(groups) :
                                    groups'[k + 1] = groups[k]
                    ELSE /\ groups'[Len(groups')] = regResult'
                         /\ \A k \in 1..Len(groups) : groups'[k] = groups[k]
      ]_vars

\* a third group was put between two others, right after the group named after
C8_Witness ==
    /\ regCall.op = "getgroup"
    /\ Len(groups) = 3
    /\ groups[1].name = regCall.after
    /\ groups[2].name = regCall.name
    /\ regResult = groups[2]

\* every group of the parser, the anonymous one last
AllGroups ==
    groups \o <<[name |-> <<"Custom options">>, description |-> << >>,
                 options |-> anonymous]>>

\* the places (group, index) of the registered options
OptionPlaces ==
    {p \in (1..Len(AllGroups)) \X (1..MaxRegOptions) :
        p[2] <= Len(AllGroups[p[1]].options)}

\* the option registered at a place
OptionAt(p) == AllGroups[p[1]].options[p[2]]

\* no option string is registered for two different options of the parser
NoNameTwice ==
    \A p, q \in OptionPlaces :
        p # q => Items(names(OptionAt(p))) \cap Items(names(OptionAt(q))) = {}

\* the grammar r holds exactly the registered options: a section per
\* non-empty group in stored order, the anonymous group last, and a token of
\* args sets the dest of the option it names and no other
RecognisesRegistered(r, args) ==
    LET full == {k \in 1..Len(AllGroups) : AllGroups[k].options # << >>}
        Nth(n) == CHOOSE k \in full : Cardinality({j \in full : j < k}) = n - 1
    IN  /\ Len(r.sections) = Cardinality(full)
        /\ \A n \in 1..Len(r.sections) :
            /\ Len(r.sections[n].actions) = Len(AllGroups[Nth(n)].options)
            /\ \A i \in 1..Len(r.sections[n].actions) :
                LET o == AllGroups[Nth(n)].options[i]
                    a == r.sections[n].actions[i]
                IN  a.option_strings = names(o) /\ a.dest = o.dest
        /\ DOMAIN r.namespace = {OptionAt(p).dest : p \in OptionPlaces}
        /\ \A d \in DOMAIN r.namespace :
            r.namespace[d] <=>
                \E p \in OptionPlaces, i \in 1..Len(args) :
                    OptionAt(p).dest = d /\ args[i] \in Items(names(OptionAt(p)))

\* no group holds an option string in two of its options
GroupsHoldNoNameTwice ==
    \A p, q \in OptionPlaces :
        (p # q /\ p[1] = q[1])
            => Items(names(OptionAt(p))) \cap Items(names(OptionAt(q))) = {}

\* C9 as claimed: every parse compiles the grammar from the options registered
\* at that moment and recognises exactly those (stated for the parsers in
\* which every group holds each of its option strings once).
C9_ParseRecognisesAll ==
    [][(regCall'.op \in {"parse", "parse_known"} /\ GroupsHoldNoNameTwice) =>
        /\ regResult'.raised # "ArgumentError"
        /\ RecognisesRegistered(regResult', regCall'.args)]_vars

\* C9 as amended: every parse compiles the grammar anew from the options
\* registered at that moment; it recognises exactly those when no option
\* string is registered for two different options, and otherwise the compile
\* fails with argparse's conflict error.
C9_ParseCompilesAnew ==
    [][regCall'.op \in {"parse", "parse_known"} =>
        IF NoNameTwice
            THEN /\ regResult'.raised # "ArgumentError"
                 /\ RecognisesRegistered(regResult', regCall'.args)
        ELSE regResult'.raised = "ArgumentError"]_vars

\* a parse that recognised an option of a named group, the anonymous group
\* compiled as the last of two sections
C9_Witness ==
    /\ regCall.op = "parse" /\ regResult.raised = "none"
    /\ Len(regResult.sections) = 2
    /\ regResult.sections[2].title = <<"Custom options">>
    /\ \E d \in DOMAIN regResult.namespace : regResult.namespace[d]
    /\ \E i \in 1..Len(regResult.sections[1].actions) :
           regResult.namespace[regResult.sections[1].actions[i].dest]

\* --------------------------------------------- claims on the help formatter

\* the collapsed key of a long spelling: "--" stripped and every "-" removed
CollapsedKey(name) == Remove(From(name, 2), "-")

\* the spelling recorded for the key of the long spelling nms[i]: the first
\* of the longest long spellings of nms that have its key
RecordedFor(nms, i) ==
    LET same == {j \in 1..Len(nms) :
                    Len(nms[j]) > 2 /\ CollapsedKey(nms[j]) = CollapsedKey(nms[i])}
        longest == {j \in same : \A k \in same : Len(nms[k]) <= Len(nms[j])}
    IN  nms[Least(longest)]

\* the spelling nms[i] is shown: a short form, or the spelling recorded for
\* its key
Survives(nms, i) == Len(nms[i]) = 2 \/ nms[i] = RecordedFor(nms, i)

\* the spelling nms[i] as shown: a short form as argparse gives it, a long
\* form with "=" before the placeholder
Shown(nms, metavar, i) ==
    IF metavar = None THEN nms[i]
    ELSE nms[i] \o (IF Len(nms[i]) = 2 THEN <<" ">> ELSE <<"=">>) \o metavar

\* the spellings shown, in the order of nms, joined by ", "
ExpectedInvocation(nms, metavar) ==
    LET shown == SelectSeq([i \in 1..Len(nms) |-> i], LAMBDA i : Survives(nms, i))
    IN  Join(<<",", " ">>,
             [k \in 1..Len(shown) |-> Shown(nms, metavar, shown[k])], 1)

\* two spellings without placeholder, one of them a short form
ShortcutCase(nms, metavar) ==
    Len(nms) = 2 /\ metavar = None /\ \E i \in 1..2 : Len(nms[i]) = 2

\* C11: for an optional action that is not the two-spelling shortcut case,
\* every rendering, the first and any later one, returns the short forms
\* verbatim and, per collapsed key, only the longest spelling recorded for it
\* (the placeholder's leading space turned into "="), in the original order
\* joined by ", ".
C11_DropsShorterSpellings ==
    (/\ fmtAction.renders > 0
     /\ fmtAction.option_strings # << >>
     /\ ~ShortcutCase(fmtAction.option_strings, fmtAction.metavar))
        => /\ fmtResult.raised = "none"
           /\ fmtResult.value =
                ExpectedInvocation(fmtAction.option_strings, fmtAction.metavar)

\* --two-words and --twowords of one option taking a value, rendered twice as
\* the longer spelling alone
C11_Witness ==
    /\ fmtAction.renders = 2
    /\ fmtAction.option_strings =
           <<<<"-", "-", "t", "-", "w">>, <<"-", "-", "t", "w">>>>
    /\ fmtAction.metavar = <<"V">>
    /\ fmtResult.value = <<"-", "-", "t", "-", "w", "=", "V">>


\* ------------------------------------------- claims on OverrideIniAction

\* the override_ini of the namespace, empty when it has none yet
OverrideIni ==
    IF <<"override_ini">> \in DOMAIN namespace
        THEN namespace[<<"override_ini">>].items
    ELSE << >>

\* the entries override_ini started with
EarlierEntries == ovrEarlier.value.items

\* C10: whatever flags are activated, repeated or not, after whatever earlier
\* entries, each activation sets its own dest to true and appends one string
\* "{ini_option}={ini_value}": override_ini is the earlier entries followed by
\* one entry per activation, left to right.
C10_OverridesAccumulate ==
    /\ ovrLog # << >> =>
        /\ <<"override_ini">> \in DOMAIN namespace
        /\ ~namespace[<<"override_ini">>].none
        /\ Len(OverrideIni) = Len(EarlierEntries) + Len(ovrLog)
        /\ SubSeq(OverrideIni, 1, Len(EarlierEntries)) = EarlierEntries
        /\ \A i \in 1..Len(ovrLog) :
            LET entry == OverrideIni[Len(EarlierEntries) + i]
                key == ovrLog[i].ini_option
                value == ovrLog[i].ini_value
            IN  /\ Len(entry) = Len(key) + 1 + Len(value)
                /\ SubSeq(entry, 1, Len(key)) = key
                /\ entry[Len(key) + 1] = "="
                /\ SubSeq(entry, Len(key) + 2, Len(entry)) = value
    /\ \A i \in 1..Len(ovrLog) : namespace[ovrLog[i].dest] = TRUE
    /\ DOMAIN namespace \ {<<"override_ini">>} =
           {ovrLog[i].dest : i \in 1..Len(ovrLog)}

\* the same flag activated twice after an earlier -o entry
C10_Witness ==
    /\ Len(ovrLog) = 2 /\ ovrLog[1] = ovrLog[2]
    /\ ovrLog[1].ini_option = <<"k">> /\ ovrLog[1].ini_value = <<"/", "t">>
    /\ Len(EarlierEntries) = 1
    /\ OverrideIni = <<<<"x", "=", "1">>, <<"k", "=", "/", "t">>,
                       <<"k", "=", "/", "t">>>>

====
